---- MODULE Spec2Model ----
(***************************************************************************)
(* Model of the interactive file picker of file-picker/src/lib.rs:         *)
(* the builder (FilePicker), the directory lister (list_files_in_folder),  *)
(* the interaction loop (_interact_on) and the renderer                    *)
(* (TermThemeRenderer).  The Paging type is declared by `mod paging_copy`  *)
(* (lib.rs:6-8) but its file is not part of the sources, so its four       *)
(* operations are modelled from section 4.2 of the specification.          *)
(*                                                                         *)
(* A state is observed while the picker is blocked in term.read_key()      *)
(* (lib.rs:225) or after it has returned.  Indices are 0-based as in the   *)
(* code; a TLA+ sequence s is read at s[i + 1].  File names contain no     *)
(* line break.                                                             *)
(***************************************************************************)
EXTENDS Integers, Sequences, FiniteSets, TLC

VARIABLES
    file_type,      \* FilePicker.file_type
    prompt,         \* FilePicker.prompt   (None or the prompt text)
    report,         \* FilePicker.report
    clear,          \* FilePicker.clear
    max_length,     \* FilePicker.max_length (None or the stored bound)
    allow_quit,     \* the allow_quit argument of _interact_on
    status,         \* "building", "browsing", "selected", "cancelled", "panicked",
                    \* "error"
    directory,      \* the directory being browsed
    files_in_dir,   \* its filtered listing (paths)
    sel,            \* the selection index
    paging,         \* the Paging value of the directory
    render,         \* the TermThemeRenderer of the directory
    term,           \* the terminal: rows on screen, cursor, calls of the last step
    result,         \* what _interact_on returned (None, or the selected path)
    lastKey,        \* the key handled by the last step
    moved,          \* history: a Down or Up key was handled in this directory
    builderCall     \* history, while building: the last of with_prompt and
                    \* report(v) called ("none", "with_prompt", "report_true",
                    \* "report_false")

vars == <<file_type, prompt, report, clear, max_length, allow_quit, status,
          directory, files_in_dir, sel, paging, render, term, result, lastKey,
          moved, builderCall>>

\* Option<T>: None is the empty tuple, Some(x) the 1-tuple of x
None == << >>
Some(x) == <<x>>
Unwrap(o) == o[1]

Min(a, b) == IF a <= b THEN a ELSE b

----------------------------------------------------------------------------
(* Bounds of the model. *)

\* Key presses stop once the screen holds more than this many rows (rows
\* that an erase left behind accumulate without limit otherwise).
MaxScreen == 14

\* The environment makes at most one fallible call fail, the one reached
\* after at most this many successful calls.
MaxFuse == 9

----------------------------------------------------------------------------
(* The environment: terminal size, working directory, file system. *)

\* term.size() = (rows, columns)
TermRows == 10
TermCols == 20

\* std::env::current_dir()
Cwd == <<"cwd">>

PromptText == "Pick"
BuilderPrompts == {PromptText}
\* arguments given to max_length(val)
MaxLengthArgs == {1, 10}

\* One raw child of a directory as fs::read_dir yields it: ok = FALSE is an
\* entry whose read failed; ext = None is a name without an extension.
Child(name, isdir, ext) == [name |-> name, is_dir |-> isdir, ext |-> ext, ok |-> TRUE]
Unreadable == [name |-> "?", is_dir |-> FALSE, ext |-> None, ok |-> FALSE]

BigCount == 30
BigSubAt == 13
BigWideAt == 29
\* a name of 25 characters: one column-wrap on a 20-column terminal
WideName25 == "a_twenty_five_char_name_w"
\* a name of 45 characters: two column-wraps on a 20-column terminal
WideName45 == "a_name_of_forty_five_characters_wraps_twice_w"

BigChild(i) ==
    IF i = BigSubAt THEN Child("sub", TRUE, None)
    ELSE IF i = BigWideAt THEN Child(WideName25, FALSE, None)
    ELSE Child("f" \o ToString(i) \o ".jpg", FALSE, Some("jpg"))

\* fs::read_dir(folder): the children in enumeration order
RawDir(folder) ==
    CASE folder = Cwd ->
            << Child("photo.JPG", FALSE, Some("JPG")),
               Child("big", TRUE, None),
               Unreadable,
               Child("notes.txt", FALSE, Some("txt")),
               Child("empty", TRUE, None),
               Child("wide", TRUE, None) >>
      [] folder = Cwd \o <<"big">> -> [i \in 1..BigCount |-> BigChild(i - 1)]
      [] folder = Cwd \o <<"big", "sub">> ->
            << Child("x.txt", FALSE, Some("txt")) >>
      [] folder = Cwd \o <<"wide">> ->
            << Child("Makefile", FALSE, None),
               Child(WideName25, FALSE, None),
               Child(WideName45, FALSE, None) >>
      [] OTHER -> << >>

\* Path::file_name
file_name(path) ==
    IF path = << >> \/ path[Len(path)] = ".." THEN None ELSE Some(path[Len(path)])

parent(path) == SubSeq(path, 1, Len(path) - 1)

\* the raw child a listed path came from
ChildOf(path) ==
    LET raw == RawDir(parent(path))
    IN  raw[CHOOSE i \in 1..Len(raw) : raw[i].ok /\ Some(raw[i].name) = file_name(path)]

\* Path::is_dir
is_dir(path) == ChildOf(path).is_dir

\* Path::extension
extension(path) == ChildOf(path).ext

\* str::to_lowercase on the extensions of the file system above
to_lowercase(s) ==
    CASE s = "JPG" -> "jpg"
      [] s = "Jpg" -> "jpg"
      [] s = "TXT" -> "txt"
      [] OTHER -> s

----------------------------------------------------------------------------
(* FileType and list_files_in_folder. *)

Folder == [tag |-> "Folder", ext |-> ""]
WithExtension(e) == [tag |-> "WithExtension", ext |-> e]
AnyFile == [tag |-> "Any", ext |-> ""]
FileTypes == {Folder, WithExtension("jpg"), AnyFile}

\* impl Default for FilePicker: Self::new(FileType::Any)
FilePicker_default == AnyFile

\* entry_match keeping every named entry whatever the filter
entry_match_all(entry, ft) == file_name(entry) # None

\* entry_match comparing the extension as it is spelled
entry_match_case_sensitive(entry, ft) ==
    IF file_name(entry) = None THEN FALSE
    ELSE CASE ft.tag = "Folder" -> is_dir(entry)
           [] ft.tag = "WithExtension" ->
                is_dir(entry)
                \/ (extension(entry) # None /\ ft.ext = Unwrap(extension(entry)))
           [] OTHER -> TRUE

entry_match(entry, ft) ==
    IF file_name(entry) = None THEN FALSE
    ELSE CASE ft.tag = "Folder" -> is_dir(entry)
           [] ft.tag = "WithExtension" ->
                is_dir(entry)
                \/ (extension(entry) # None
                    /\ ft.ext = to_lowercase(Unwrap(extension(entry))))
           [] OTHER -> TRUE

RECURSIVE ListFrom(_, _, _, _)
ListFrom(folder, ft, raw, i) ==
    IF i > Len(raw) THEN << >>
    ELSE LET rest == ListFrom(folder, ft, raw, i + 1)
             path == folder \o <<raw[i].name>>
         IN  IF raw[i].ok /\ entry_match(path, ft) THEN <<path>> \o rest ELSE rest

list_files_in_folder(folder, ft) == ListFrom(folder, ft, RawDir(folder), 1)

\* filenames (lib.rs:181-189): the file name of each listed path
filenames(files) == [i \in 1..Len(files) |-> Unwrap(file_name(files[i]))]

\* size_vec (lib.rs:195-204): the length of each file name
size_vec(files) == [i \in 1..Len(files) |-> Len(filenames(files)[i])]

----------------------------------------------------------------------------
(* The terminal (console::Term).  The screen is the sequence of rows the   *)
(* picker has written and not erased, oldest first, each row named by the  *)
(* kind of line it belongs to; `above` counts rows erased that the picker  *)
(* had not written; `ops` lists the calls made by the last step, with the  *)
(* full text of every line written.                                        *)

NoLine == [kind |-> "none", prompt |-> "", text |-> "", active |-> FALSE, page |-> 0, pages |-> 0]

Call(op, n, line) == [op |-> op, n |-> n, line |-> line]

\* the positions in the calls of the last step of the calls named op
CallsAt(t, op) == {i \in 1..Len(t.ops) : t.ops[i].op = op}

Digits(n) == IF n < 10 THEN 1 ELSE 2

\* display width of a line as the default theme formats it
Width(line) ==
    CASE line.kind = "prompt" ->
            Len(line.prompt) + 1
            + (IF line.page = 0 THEN 0 ELSE 10 + Digits(line.page) + Digits(line.pages))
      [] line.kind = "item" -> 2 + Len(line.text)
      [] line.kind = "selection" -> Len(line.prompt) + 2 + Len(line.text)
      [] OTHER -> 0

\* rows a written line occupies on a terminal that wraps at TermCols
RowsOf(line) == IF Width(line) = 0 THEN 1 ELSE (Width(line) + TermCols - 1) \div TermCols

\* An io::Result followed by `?`.  t.fuse is the number of fallible calls that
\* succeed before the environment makes one fail (-1: none fails).  The
\* failing call has no effect but the entry "Err" in the calls of the step;
\* the `?` returns from _interact_on, so no later call has any effect.
Try(t, name, done) ==
    IF t.failed THEN t
    ELSE IF t.fuse = 0
         THEN [t EXCEPT !.failed = TRUE,
                        !.fuse = -1,
                        !.ops = Append(@, Call("Err", 0, [NoLine EXCEPT !.text = name]))]
         ELSE [done EXCEPT !.fuse = IF @ > 0 THEN @ - 1 ELSE @]

write_line(t, line) ==
    Try(t, "write_line",
        [t EXCEPT !.screen = @ \o [r \in 1..RowsOf(line) |-> line.kind],
                  !.ops = Append(@, Call("write_line", 0, line))])

clear_last_lines(t, n) ==
    LET have == Len(t.screen)
        k == Min(n, have)
    IN  Try(t, "clear_last_lines",
            [t EXCEPT !.screen = SubSeq(@, 1, have - k),
                      !.above = @ + (n - k),
                      !.ops = Append(@, Call("clear_last_lines", n, NoLine))])

hide_cursor(t) ==
    Try(t, "hide_cursor",
        [t EXCEPT !.cursor = FALSE, !.ops = Append(@, Call("hide_cursor", 0, NoLine))])

show_cursor(t) ==
    Try(t, "show_cursor",
        [t EXCEPT !.cursor = TRUE, !.ops = Append(@, Call("show_cursor", 0, NoLine))])

\* flush with its result dropped: a failure does not end the picker
flush_unchecked(t) ==
    IF t.failed THEN t
    ELSE IF t.fuse = 0
         THEN [t EXCEPT !.fuse = -1,
                        !.ops = Append(@, Call("Err", 0, [NoLine EXCEPT !.text = "flush"]))]
         ELSE [t EXCEPT !.ops = Append(@, Call("flush", 0, NoLine)),
                        !.fuse = IF @ > 0 THEN @ - 1 ELSE @]

flush(t) == Try(t, "flush", [t EXCEPT !.ops = Append(@, Call("flush", 0, NoLine))])

\* Term::read_key, fs::read_dir and env::current_dir as fallible calls: what
\* they return on success is given by the key action, RawDir and Cwd
read_key(t) == Try(t, "read_key", t)
read_dir(t) == Try(t, "read_dir", t)
current_dir(t) == Try(t, "current_dir", t)

----------------------------------------------------------------------------
(* TermThemeRenderer.  The operations below act on a record s holding the  *)
(* loop's locals: s.render and s.term are the renderer and its terminal.   *)

TermThemeRenderer_new == [height |-> 0, prompt_height |-> 0, prompts_reset_height |-> TRUE]

write_formatted_line(s, line) ==
    [s EXCEPT !.render.height = @ + 1, !.term = write_line(@, line)]

write_formatted_prompt(s, line) ==
    LET s1 == write_formatted_line(s, line)
    IN  IF s1.render.prompts_reset_height
        THEN [s1 EXCEPT !.render.prompt_height = s1.render.height, !.render.height = 0]
        ELSE s1

\* select_prompt never writing the page indicator
select_prompt_no_indicator(s, text, paging_info) ==
    write_formatted_prompt(s,
        [kind |-> "prompt", prompt |-> text, text |-> "", active |-> FALSE,
         page |-> 0, pages |-> 0])

\* paging_info is None or Some(<<page, pages>>)
select_prompt(s, text, paging_info) ==
    write_formatted_prompt(s,
        [kind |-> "prompt", prompt |-> text, text |-> "", active |-> FALSE,
         page |-> IF paging_info = None THEN 0 ELSE Unwrap(paging_info)[1],
         pages |-> IF paging_info = None THEN 0 ELSE Unwrap(paging_info)[2]])

select_prompt_selection(s, text, name) ==
    write_formatted_prompt(s,
        [kind |-> "selection", prompt |-> text, text |-> name, active |-> FALSE,
         page |-> 0, pages |-> 0])

select_prompt_item(s, name, active) ==
    write_formatted_line(s,
        [kind |-> "item", prompt |-> "", text |-> name, active |-> active,
         page |-> 0, pages |-> 0])

render_clear(s) ==
    [s EXCEPT !.term = clear_last_lines(@, s.render.height + s.render.prompt_height),
              !.render.height = 0]

\* clear_preserve_prompt without the extra line per long name
clear_preserve_prompt_no_extra(s, sizes) ==
    [s EXCEPT !.term = clear_last_lines(@, s.render.height), !.render.height = 0]

clear_preserve_prompt(s, sizes) ==
    LET new_height == s.render.height
                      + Cardinality({i \in 1..Len(sizes) : sizes[i] > TermCols})
    IN  [s EXCEPT !.term = clear_last_lines(@, new_height), !.render.height = 0]

----------------------------------------------------------------------------
(* Paging (mod paging_copy): modelled from section 4.2 of the              *)
(* specification.  prompt_due says that the prompt has not been written    *)
(* for this directory yet: without paging the prompt is written once per   *)
(* directory and left on screen by clear_preserve_prompt.                  *)

\* Capacity: the configured bound, or the terminal's row count
Paging_capacity(max) == IF max = None THEN TermRows ELSE Unwrap(max)

Paging_new(items_len, max) ==
    LET capacity == Paging_capacity(max)
    IN  [capacity |-> capacity,
         pages |-> (items_len + capacity - 1) \div capacity,
         current_page |-> 0,
         active |-> items_len > capacity,
         prompt_due |-> TRUE]

Sentinel == -1   \* !0, the largest usize (lib.rs:227, 248, 267, 283)

Paging_update(p, cursor_pos) ==
    [p EXCEPT !.current_page = IF cursor_pos = Sentinel THEN @ ELSE cursor_pos \div p.capacity,
              !.prompt_due = FALSE]

Paging_next_page(p) ==
    [p EXCEPT !.current_page = IF @ + 1 >= p.pages THEN 0 ELSE @ + 1]

Paging_previous_page(p) ==
    [p EXCEPT !.current_page = IF @ = 0 THEN p.pages - 1 ELSE @ - 1]

\* the index of the first item of the current page
Paging_first(p) == p.current_page * p.capacity

\* Paging::render_prompt(f): f gets the page indicator when paging is active
Paging_render_prompt(s, text) ==
    IF s.paging.active
    THEN select_prompt(s, text, Some(<<s.paging.current_page + 1, s.paging.pages>>))
    ELSE IF s.paging.prompt_due THEN select_prompt(s, text, None) ELSE s

----------------------------------------------------------------------------
(* FilePicker::_interact_on (lib.rs:173-317). *)

\* the loop's locals as one record
Locals ==
    [status |-> status, directory |-> directory, files_in_dir |-> files_in_dir,
     sel |-> sel, paging |-> paging, render |-> render, term |-> term,
     result |-> result]

\* a panic of the Rust runtime (division by zero, index out of bounds)
Panic(s) == [s EXCEPT !.status = "panicked"]

\* lib.rs:214-221: the items of the current page, from index i (0-based)
RECURSIVE RenderItems(_, _, _)
RenderItems(s, i, end) ==
    IF i >= end THEN s
    ELSE RenderItems(select_prompt_item(s, filenames(s.files_in_dir)[i + 1], s.sel = i),
                     i + 1, end)

\* lib.rs:209-223: one frame, up to the blocking key read
RenderFrame(s) ==
    LET s1 == IF prompt # None THEN Paging_render_prompt(s, Unwrap(prompt)) ELSE s
        first == s1.paging.current_page * s1.paging.capacity
        end == Min(Len(s1.files_in_dir), first + s1.paging.capacity)
        s2 == RenderItems(s1, first, end)
    IN  [s2 EXCEPT !.term = flush(@)]

\* OpenDirectory keeping the selection of the directory left behind
OpenDirectory_keep_sel(s, dir) ==
    LET files == list_files_in_folder(dir, file_type)
        s1 == [s EXCEPT !.status = "browsing",
                        !.directory = dir,
                        !.files_in_dir = files,
                        !.paging = Paging_new(Len(files), max_length),
                        !.render = TermThemeRenderer_new,
                        !.term = hide_cursor(read_dir(@))]
    IN  RenderFrame(s1)

\* OpenDirectory starting from the sentinel (no entry selected)
OpenDirectory_sentinel(s, dir) ==
    LET files == list_files_in_folder(dir, file_type)
        s1 == [s EXCEPT !.status = "browsing",
                        !.directory = dir,
                        !.files_in_dir = files,
                        !.paging = Paging_new(Len(files), max_length),
                        !.render = TermThemeRenderer_new,
                        !.sel = -1,
                        !.term = hide_cursor(read_dir(@))]
    IN  RenderFrame(s1)

\* OpenDirectory sizing the pages by the unfiltered child count
OpenDirectory_raw_count(s, dir) ==
    LET files == list_files_in_folder(dir, file_type)
        s1 == [s EXCEPT !.status = "browsing",
                        !.directory = dir,
                        !.files_in_dir = files,
                        !.paging = Paging_new(Len(RawDir(dir)), max_length),
                        !.render = TermThemeRenderer_new,
                        !.sel = 0,
                        !.term = hide_cursor(read_dir(@))]
    IN  RenderFrame(s1)

\* lib.rs:180-206 and the first frame: what `continue 'directory` runs
OpenDirectory(s, dir) ==
    LET files == list_files_in_folder(dir, file_type)
        s1 == [s EXCEPT !.status = "browsing",
                        !.directory = dir,
                        !.files_in_dir = files,
                        !.paging = Paging_new(Len(files), max_length),
                        !.render = TermThemeRenderer_new,
                        !.sel = 0,
                        !.term = hide_cursor(read_dir(@))]
    IN  RenderFrame(s1)

\* Redraw without paging.update(sel)
Redraw_no_update(s) ==
    LET s1 == [s EXCEPT !.paging.prompt_due = FALSE]
        s2 == IF s1.paging.active
              THEN render_clear(s1)
              ELSE clear_preserve_prompt(s1, size_vec(s1.files_in_dir))
    IN  RenderFrame(s2)

\* Redraw with the two erases exchanged
Redraw_swapped_clear(s) ==
    LET s1 == [s EXCEPT !.paging = Paging_update(@, s.sel)]
        s2 == IF s1.paging.active
              THEN clear_preserve_prompt(s1, size_vec(s1.files_in_dir))
              ELSE render_clear(s1)
    IN  RenderFrame(s2)

\* lib.rs:308-314 and the next frame: what follows a key that neither
\* returned nor descended
Redraw(s) ==
    LET s1 == [s EXCEPT !.paging = Paging_update(@, s.sel)]
        s2 == IF s1.paging.active
              THEN render_clear(s1)
              ELSE clear_preserve_prompt(s1, size_vec(s1.files_in_dir))
    IN  RenderFrame(s2)

\* OnDown without the wrap-around
OnDown_nowrap(s) ==
    IF s.sel = Sentinel THEN Redraw([s EXCEPT !.sel = 0])
    ELSE IF Len(s.files_in_dir) = 0 THEN Panic(s)
    ELSE Redraw([s EXCEPT !.sel = s.sel + 1])

\* lib.rs:226-232
OnDown(s) ==
    IF s.sel = Sentinel THEN Redraw([s EXCEPT !.sel = 0])
    ELSE IF Len(s.files_in_dir) = 0 THEN Panic(s)
    ELSE Redraw([s EXCEPT !.sel = (s.sel + 1) % Len(s.files_in_dir)])

\* OnUp wrapping to len() instead of len() - 1
OnUp_off_by_one(s) ==
    IF s.sel = Sentinel
    THEN IF Len(s.files_in_dir) = 0 THEN Panic(s)
         ELSE Redraw([s EXCEPT !.sel = Len(s.files_in_dir) - 1])
    ELSE IF Len(s.files_in_dir) = 0 THEN Panic(s)
    ELSE Redraw([s EXCEPT !.sel = IF s.sel = 0 THEN Len(s.files_in_dir) ELSE s.sel - 1])

\* lib.rs:247-255.  From the sentinel in an empty listing `len() - 1`
\* overflows: a panic with overflow checks, the sentinel again without.
OnUp(s) ==
    IF s.sel = Sentinel
    THEN IF Len(s.files_in_dir) = 0 THEN Panic(s)
         ELSE Redraw([s EXCEPT !.sel = Len(s.files_in_dir) - 1])
    ELSE IF Len(s.files_in_dir) = 0 THEN Panic(s)
    ELSE Redraw([s EXCEPT !.sel = (s.sel - 1 + Len(s.files_in_dir)) % Len(s.files_in_dir)])

\* OnLeft changing the page but keeping the selection
OnLeft_keep_sel(s) ==
    IF s.paging.active
    THEN Redraw([s EXCEPT !.paging = Paging_previous_page(s.paging)])
    ELSE Redraw(s)

\* lib.rs:256-260
OnLeft(s) ==
    IF s.paging.active
    THEN LET p == Paging_previous_page(s.paging)
         IN  Redraw([s EXCEPT !.paging = p, !.sel = Paging_first(p)])
    ELSE Redraw(s)

\* OnRight calling previous_page
OnRight_swapped(s) ==
    IF s.paging.active
    THEN LET p == Paging_previous_page(s.paging)
         IN  Redraw([s EXCEPT !.paging = p, !.sel = Paging_first(p)])
    ELSE Redraw(s)

\* OnRight without the test of paging.active
OnRight_unguarded(s) ==
    LET p == Paging_next_page(s.paging)
    IN  Redraw([s EXCEPT !.paging = p, !.sel = Paging_first(p)])

\* lib.rs:261-265
OnRight(s) ==
    IF s.paging.active
    THEN LET p == Paging_next_page(s.paging)
         IN  Redraw([s EXCEPT !.paging = p, !.sel = Paging_first(p)])
    ELSE Redraw(s)

\* OnEscape ignoring the clear flag
OnEscape_always_clear(s) ==
    IF allow_quit
    THEN [render_clear(s) EXCEPT !.term = flush(show_cursor(@)),
                                 !.status = "cancelled",
                                 !.result = None]
    ELSE Redraw(s)

\* OnEscape cancelling on either entry point
OnEscape_always_quit(s) ==
    LET s1 == IF clear THEN render_clear(s)
              ELSE [s EXCEPT !.term = clear_last_lines(@, s.paging.capacity)]
    IN  [s1 EXCEPT !.term = flush(show_cursor(@)),
                   !.status = "cancelled",
                   !.result = None]

\* lib.rs:233-246
OnEscape(s) ==
    IF allow_quit
    THEN LET s1 == IF clear THEN render_clear(s)
                   ELSE [s EXCEPT !.term = clear_last_lines(@, s.paging.capacity)]
         IN  [s1 EXCEPT !.term = flush(show_cursor(@)),
                        !.status = "cancelled",
                        !.result = None]
    ELSE Redraw(s)

\* Confirm printing the confirmation line whenever a prompt is set
Confirm_ignore_report(s) ==
    LET s1 == IF clear THEN render_clear(s) ELSE s
    IN  IF prompt # None
        THEN IF s.sel >= Len(s.files_in_dir) THEN Panic(s1)
             ELSE select_prompt_selection(s1, Unwrap(prompt),
                                          filenames(s.files_in_dir)[s.sel + 1])
        ELSE s1

\* lib.rs:268-276 and 284-292: the clear and the confirmation line shared by
\* Enter and Space; filenames[sel] panics past the end of the listing
Confirm(s) ==
    LET s1 == IF clear THEN render_clear(s) ELSE s
    IN  IF prompt # None /\ report
        THEN IF s.sel >= Len(s.files_in_dir) THEN Panic(s1)
             ELSE select_prompt_selection(s1, Unwrap(prompt),
                                          filenames(s.files_in_dir)[s.sel + 1])
        ELSE s1

\* ReturnSelected without show_cursor
ReturnSelected_cursor_hidden(s) ==
    LET s1 == [s EXCEPT !.term = flush(@)]
    IN  IF s.sel >= Len(s.files_in_dir) THEN Panic(s1)
        ELSE [s1 EXCEPT !.status = "selected", !.result = Some(s.files_in_dir[s.sel + 1])]

\* lib.rs:278-281 and 299-302
ReturnSelected(s) ==
    LET s1 == [s EXCEPT !.term = flush(show_cursor(@))]
    IN  IF s.sel >= Len(s.files_in_dir) THEN Panic(s1)
        ELSE [s1 EXCEPT !.status = "selected", !.result = Some(s.files_in_dir[s.sel + 1])]

\* lib.rs:267-282
OnEnter(s) ==
    IF s.sel # Sentinel
    THEN LET s1 == Confirm(s)
         IN  IF s1.status = "panicked" THEN s1 ELSE ReturnSelected(s1)
    ELSE Redraw(s)

\* OnSpace returning a file without show_cursor
OnSpace_no_show_cursor(s) ==
    IF s.sel # Sentinel
    THEN LET s1 == Confirm(s)
         IN  IF s1.status = "panicked" THEN s1
             ELSE IF s.sel >= Len(s.files_in_dir) THEN Panic(s1)
             ELSE IF is_dir(s.files_in_dir[s.sel + 1])
                  THEN OpenDirectory(render_clear(s1), s.files_in_dir[s.sel + 1])
                  ELSE [s1 EXCEPT !.term = flush(@),
                                  !.status = "selected",
                                  !.result = Some(s.files_in_dir[s.sel + 1])]
    ELSE Redraw(s)

\* lib.rs:283-304
OnSpace(s) ==
    IF s.sel # Sentinel
    THEN LET s1 == Confirm(s)
         IN  IF s1.status = "panicked" THEN s1
             ELSE IF s.sel >= Len(s.files_in_dir) THEN Panic(s1)
             ELSE IF is_dir(s.files_in_dir[s.sel + 1])
                  THEN OpenDirectory(render_clear(s1), s.files_in_dir[s.sel + 1])
                  ELSE ReturnSelected(s1)
    ELSE Redraw(s)

\* lib.rs:305
OnOther(s) == Redraw(s)

----------------------------------------------------------------------------
(* The state machine. *)

\* FilePicker::new(file_type) -> with_theme: the builder's defaults
Init ==
    /\ file_type \in FileTypes \cup {FilePicker_default}
    /\ prompt = None
    /\ report = FALSE
    /\ clear = TRUE
    /\ max_length = None
    /\ allow_quit = FALSE
    /\ status = "building"
    /\ directory = << >>
    /\ files_in_dir = << >>
    /\ sel = 0
    /\ paging = Paging_new(0, None)
    /\ render = TermThemeRenderer_new
    /\ term = [screen |-> << >>, cursor |-> TRUE, above |-> 0, ops |-> << >>,
               fuse |-> -1, failed |-> FALSE]
    /\ result = None
    /\ lastKey = "none"
    /\ moved = FALSE
    /\ builderCall = "none"

Config == <<file_type, prompt, report, clear, max_length>>
Run == <<status, directory, files_in_dir, sel, paging, render, term, result, lastKey,
         moved>>

\* with_prompt leaving the report flag as it is
with_prompt_keep_report ==
    /\ status = "building"
    /\ \E p \in BuilderPrompts : prompt' = Some(p)
    /\ report' = report
    /\ builderCall' = "with_prompt"
    /\ UNCHANGED <<file_type, clear, max_length, allow_quit>>
    /\ UNCHANGED Run

\* FilePicker::with_prompt
with_prompt ==
    /\ status = "building"
    /\ \E p \in BuilderPrompts : prompt' = Some(p)
    /\ report' = TRUE
    /\ builderCall' = "with_prompt"
    /\ UNCHANGED <<file_type, clear, max_length, allow_quit>>
    /\ UNCHANGED Run

\* FilePicker::report
set_report ==
    /\ status = "building"
    /\ \E val \in BOOLEAN :
          /\ report' = val
          /\ builderCall' = IF val THEN "report_true" ELSE "report_false"
    /\ UNCHANGED <<file_type, prompt, clear, max_length, allow_quit>>
    /\ UNCHANGED Run

\* FilePicker::clear
set_clear ==
    /\ status = "building"
    /\ \E val \in BOOLEAN : clear' = val
    /\ UNCHANGED <<file_type, prompt, report, max_length, allow_quit, builderCall>>
    /\ UNCHANGED Run

\* FilePicker::max_length
set_max_length ==
    /\ status = "building"
    /\ \E val \in MaxLengthArgs : max_length' = Some(val + 2)
    /\ UNCHANGED <<file_type, prompt, report, clear, allow_quit, builderCall>>
    /\ UNCHANGED Run

\* the loop's locals become the next state
Commit(s, key) ==
    /\ lastKey' = key
    /\ term' = s.term
    /\ IF s.term.failed
       THEN \* a `?` has returned Err(e): the locals are dropped
            /\ status' = "error"
            /\ result' = None
            /\ UNCHANGED <<directory, files_in_dir, sel, paging, render>>
       ELSE /\ status' = s.status
            /\ result' = s.result
            /\ directory' = s.directory
            /\ files_in_dir' = s.files_in_dir
            /\ sel' = s.sel
            /\ paging' = s.paging
            /\ render' = s.render
    /\ moved' = IF s.term.failed \/ s.status # "browsing" \/ s.directory # directory THEN FALSE
                ELSE IF key \in {"Down", "Up"} THEN TRUE
                ELSE moved

\* _interact_on up to its first key read: the directory is current_dir()
\* since no builder call sets initial_folder
Start(quit) ==
    /\ status = "building"
    /\ allow_quit' = quit
    /\ Commit(OpenDirectory([Locals EXCEPT !.term = current_dir(@)], Cwd), "none")
    /\ builderCall' = "none"
    /\ UNCHANGED Config

\* interact / interact_on
interact_on == Start(FALSE)

\* interact_opt / interact_on_opt
interact_on_opt == Start(TRUE)

\* the locals when read_key returns: the calls of the step start empty
AtKey == [Locals EXCEPT !.term = read_key([@ EXCEPT !.ops = << >>])]

KeyReady == status = "browsing" /\ Len(term.screen) <= MaxScreen

\* Key::ArrowDown | Key::Tab | Key::Char('j')
KeyDown == KeyReady /\ Commit(OnDown(AtKey), "Down") /\ UNCHANGED <<Config, allow_quit, builderCall>>

\* Key::ArrowUp | Key::BackTab | Key::Char('k')
KeyUp == KeyReady /\ Commit(OnUp(AtKey), "Up") /\ UNCHANGED <<Config, allow_quit, builderCall>>

\* Key::ArrowLeft | Key::Char('h')
KeyLeft == KeyReady /\ Commit(OnLeft(AtKey), "Left") /\ UNCHANGED <<Config, allow_quit, builderCall>>

\* Key::ArrowRight | Key::Char('l')
KeyRight == KeyReady /\ Commit(OnRight(AtKey), "Right") /\ UNCHANGED <<Config, allow_quit, builderCall>>

\* Key::Escape | Key::Char('q')
KeyEscape == KeyReady /\ Commit(OnEscape(AtKey), "Escape") /\ UNCHANGED <<Config, allow_quit, builderCall>>

\* Key::Enter
KeyEnter == KeyReady /\ Commit(OnEnter(AtKey), "Enter") /\ UNCHANGED <<Config, allow_quit, builderCall>>

\* Key::Char(' ')
KeySpace == KeyReady /\ Commit(OnSpace(AtKey), "Space") /\ UNCHANGED <<Config, allow_quit, builderCall>>

\* any other key
KeyOther == KeyReady /\ Commit(OnOther(AtKey), "Other") /\ UNCHANGED <<Config, allow_quit, builderCall>>

Next ==
    \/ with_prompt
    \/ set_report
    \/ set_clear
    \/ set_max_length
    \/ interact_on
    \/ interact_on_opt
    \/ KeyDown
    \/ KeyUp
    \/ KeyLeft
    \/ KeyRight
    \/ KeyEscape
    \/ KeyEnter
    \/ KeySpace
    \/ KeyOther

Spec == Init /\ [][Next]_vars

\* The picker with failing I/O: the environment chooses, once, the call
\* that will return an error.  The filter is Folder, which keeps the
\* listings short: 3 sub-directories, then 1, then none.
InitIO == Init /\ file_type = Folder

Fault ==
    /\ status \in {"building", "browsing"}
    /\ term.fuse = -1
    /\ CallsAt(term, "Err") = {}
    /\ \E k \in 0..MaxFuse : term' = [term EXCEPT !.fuse = k]
    /\ UNCHANGED <<Config, allow_quit, status, directory, files_in_dir, sel, paging,
                   render, result, lastKey, moved, builderCall>>

NextIO == Next \/ Fault

SpecIO == InitIO /\ [][NextIO]_vars

----------------------------------------------------------------------------
(* Properties. *)

total_items == Len(files_in_dir)

Browsing == status = "browsing"

\* the selected entry exists
Selected == sel # Sentinel /\ sel >= 0 /\ sel < total_items

\* the directory was just opened: no key has been handled in it yet
Fresh == Browsing /\ lastKey \in {"none", "Space"}

\* the item lines and the prompt lines written by the last step
ItemsWritten(t) == SelectSeq(t.ops, LAMBDA c : c.op = "write_line" /\ c.line.kind = "item")
PromptsWritten(t) == SelectSeq(t.ops, LAMBDA c : c.op = "write_line" /\ c.line.kind = "prompt")

\* C1: with N >= 1 listed entries, a Down key sets the selection to 0 from the
\* sentinel or from N-1 and to selection+1 otherwise; an Up key sets it to
\* N-1 from the sentinel or from 0 and to selection-1 otherwise.
C1_DownUpStep ==
    [][ (Browsing /\ total_items >= 1) =>
          /\ (lastKey' = "Down" =>
                sel' = IF sel = Sentinel \/ sel = total_items - 1 THEN 0 ELSE sel + 1)
          /\ (lastKey' = "Up" =>
                sel' = IF sel = Sentinel \/ sel = 0 THEN total_items - 1 ELSE sel - 1)
      ]_vars

\* a Down key has wrapped from the last entry of a longer listing to entry 0
C1_Witness == Browsing /\ lastKey = "Down" /\ sel = 0 /\ total_items >= 2

\* C2: Enter with a non-sentinel selection always ends the picker with
\* Selected(path of the selected entry) and leaves the browsed directory as it is.
C2_EnterSelects ==
    [][ (Browsing /\ lastKey' = "Enter" /\ sel # Sentinel) =>
          /\ status' = "selected"
          /\ Selected
          /\ result' = Some(files_in_dir[sel + 1])
          /\ directory' = directory
      ]_vars

\* C3: Space on a selected directory entry does not end the picker: it
\* browses that directory with a fresh listing, the selection reset to its
\* initial value (index 0, lib.rs:193) and the current page reset to 0.
C3_SpaceDescends ==
    [][ (Browsing /\ lastKey' = "Space" /\ Selected /\ is_dir(files_in_dir[sel + 1])) =>
          /\ status' = "browsing"
          /\ directory' = files_in_dir[sel + 1]
          /\ files_in_dir' = list_files_in_folder(files_in_dir[sel + 1], file_type)
          /\ sel' = 0
          /\ paging'.current_page = 0
          /\ paging' = Paging_new(Len(files_in_dir'), max_length)
      ]_vars

\* a descent from entry 13 of the 30-entry directory, which is beyond page 0
C3_Witness ==
    /\ Browsing
    /\ lastKey = "Space"
    /\ file_type = AnyFile
    /\ directory = Cwd \o <<"big", "sub">>
    /\ sel = 0
    /\ paging.current_page = 0

\* C4: Space on a selected entry that is not a directory does what Enter does
\* from the same state: same result Selected(path), same terminal calls
\* (clear and confirmation line), same final cursor visibility.
C4_SpaceOnFileIsEnter ==
    [][ (Browsing /\ lastKey' = "Space" /\ Selected /\ ~is_dir(files_in_dir[sel + 1])) =>
          LET e == OnEnter(AtKey)
          IN  /\ e.status = "selected"
              /\ status' = e.status
              /\ result' = e.result
              /\ result' = Some(files_in_dir[sel + 1])
              /\ term'.ops = e.term.ops
              /\ term'.cursor = e.term.cursor
              /\ term'.screen = e.term.screen
      ]_vars

\* Space has returned a file with a confirmation line on screen
C4_Witness ==
    /\ status = "selected"
    /\ lastKey = "Space"
    /\ ~is_dir(Unwrap(result))
    /\ \E i \in 1..Len(term.ops) : term.ops[i].line.kind = "selection"

C6_IgnoredKeyKeepsFrame ==
    [][ (Browsing /\ (lastKey' = "Other" \/ (lastKey' = "Escape" /\ ~allow_quit))) =>
          /\ status' = "browsing"
          /\ directory' = directory
          /\ sel' = sel
          /\ paging'.current_page = paging.current_page
          /\ term'.screen = term.screen
          /\ ItemsWritten(term') = ItemsWritten(term)
          /\ (paging.active => PromptsWritten(term') = PromptsWritten(term))
      ]_vars

\* C7: once a Down or Up key has been handled in a directory, the selection
\* index is in [0, total_items) in every later state of that directory.
C7_SelectionValid == (Browsing /\ moved) => (sel >= 0 /\ sel < total_items)

\* a page jump after a Down or Up key in the same directory
C7_Witness ==
    Browsing /\ moved /\ lastKey \in {"Left", "Right"} /\ paging.active /\ sel > 0

\* C8 as stated: a freshly opened directory has no entry selected, so the
\* first Down selects item 0 and the first Up the last item.
C8_FreshIsSentinel ==
    [][ (Fresh /\ total_items >= 1) =>
          /\ sel = Sentinel
          /\ (lastKey' = "Down" => sel' = 0)
          /\ (lastKey' = "Up" => sel' = total_items - 1)
      ]_vars

\* C8 amended: a freshly opened directory has index 0 selected, so with
\* N >= 1 entries the first Down selects item 1 mod N and the first Up the
\* last item.
C8_FreshIsZero ==
    [][ Fresh =>
          /\ sel = 0
          /\ (total_items >= 1 /\ lastKey' = "Down" => sel' = 1 % total_items)
          /\ (total_items >= 1 /\ lastKey' = "Up" => sel' = total_items - 1)
      ]_vars

\* the first key in the directory entered by a descent was Down: item 1
C8_Witness ==
    /\ Browsing
    /\ lastKey = "Down"
    /\ directory = Cwd \o <<"wide">>
    /\ file_type = AnyFile
    /\ sel = 1

\* C9: the paging state of a directory with N items and capacity C >= 1 has
\* active <=> N > C and page_count = ceil(N / C).
C9_PagingShape ==
    status # "building" =>
        /\ paging.capacity >= 1
        /\ paging.active = (total_items > paging.capacity)
        /\ paging.pages * paging.capacity >= total_items
        /\ (paging.pages = 0 \/ (paging.pages - 1) * paging.capacity < total_items)
        /\ paging.pages >= 0

\* a listing of 30 items in pages of 10: three full pages
C9_Witness ==
    Browsing /\ total_items = 30 /\ paging.capacity = 10 /\ paging.pages = 3 /\ paging.active

C11_PageJump ==
    [][ (Browsing /\ paging.active) =>
          /\ (lastKey' = "Right" =>
                paging'.current_page =
                    IF paging.current_page = paging.pages - 1 THEN 0
                    ELSE paging.current_page + 1)
          /\ (lastKey' = "Left" =>
                paging'.current_page =
                    IF paging.current_page = 0 THEN paging.pages - 1
                    ELSE paging.current_page - 1)
          /\ (lastKey' \in {"Left", "Right"} =>
                /\ status' = "browsing"
                /\ sel' = paging'.current_page * paging.capacity
                /\ sel' >= 0
                /\ sel' < total_items
                /\ paging'.current_page # paging.current_page)
      ]_vars

\* Left has wrapped from page 0 to the last of three pages, whose first item
\* is the selection
C11_Witness ==
    /\ Browsing
    /\ lastKey = "Left"
    /\ paging.active
    /\ paging.pages = 3
    /\ paging.current_page = 2
    /\ sel = 2 * paging.capacity

\* C12: while paging is not active (item count <= capacity), Left and Right
\* leave the selection index and the current page unchanged.
C12_NoPagingNoJump ==
    [][ (Browsing /\ ~paging.active /\ lastKey' \in {"Left", "Right"}) =>
          /\ total_items <= paging.capacity
          /\ status' = "browsing"
          /\ sel' = sel
          /\ paging'.current_page = paging.current_page
          /\ paging'.current_page = 0
      ]_vars

\* Right was pressed on the third of three entries, without paging
C12_Witness ==
    /\ Browsing
    /\ lastKey = "Right"
    /\ ~paging.active
    /\ total_items = 3
    /\ sel = 2

\* the positions of the prompt and item lines written by the last step
FrameLinesAt(t) ==
    {i \in 1..Len(t.ops) : t.ops[i].op = "write_line" /\ t.ops[i].line.kind \in {"prompt", "item"}}

\* C13: the step that opens a directory hides the cursor before it writes
\* the first line of the frame; the cursor stays hidden while browsing; the
\* step that ends with Selected or Cancelled calls show_cursor before it
\* returns and no hide_cursor after it, so the cursor is visible in every
\* Selected or Cancelled state, after any number of descents.
C13_CursorRestored ==
    /\ (Fresh =>
          /\ CallsAt(term, "hide_cursor") # {}
          /\ \A h \in CallsAt(term, "hide_cursor") : \A w \in FrameLinesAt(term) : h < w
          /\ CallsAt(term, "show_cursor") = {})
    /\ (Browsing => ~term.cursor)
    /\ (status \in {"selected", "cancelled"} =>
          /\ term.cursor
          /\ CallsAt(term, "show_cursor") # {}
          /\ CallsAt(term, "hide_cursor") = {}
          /\ \A c \in CallsAt(term, "show_cursor") : \A w \in FrameLinesAt(term) : w < c)

\* a file was returned from the directory reached by two descents
C13_Witness ==
    /\ status = "selected"
    /\ directory = Cwd \o <<"big", "sub">>
    /\ term.cursor
    /\ term.ops[Len(term.ops) - 1].op = "show_cursor"

\* the confirmation lines written by the last step
SelectionsWritten(t) ==
    SelectSeq(t.ops, LAMBDA c : c.op = "write_line" /\ c.line.kind = "selection")

\* C14: Enter on an existing entry writes exactly one confirmation line,
\* made of the prompt and the name of the selected entry, if a prompt is set
\* and report is on, and no confirmation line otherwise; the step that ends
\* with Cancelled writes no confirmation line.
C14_ConfirmationLine ==
    [][ /\ (Browsing /\ lastKey' = "Enter" /\ Selected) =>
              /\ status' = "selected"
              /\ IF prompt # None /\ report
                 THEN /\ Len(SelectionsWritten(term')) = 1
                      /\ SelectionsWritten(term')[1].line.text = filenames(files_in_dir)[sel + 1]
                      /\ SelectionsWritten(term')[1].line.prompt = Unwrap(prompt)
                 ELSE SelectionsWritten(term') = << >>
        /\ (Browsing /\ status' = "cancelled") =>
              /\ lastKey' = "Escape"
              /\ SelectionsWritten(term') = << >>
              /\ \A i \in 1..Len(term'.screen) : term'.screen[i] # "selection"
      ]_vars

\* Enter has written the confirmation line of an entry other than the first
C14_Witness ==
    /\ status = "selected"
    /\ lastKey = "Enter"
    /\ prompt # None
    /\ report
    /\ sel > 0
    /\ Len(SelectionsWritten(term)) = 1
    /\ Some(SelectionsWritten(term)[1].line.text) = file_name(Unwrap(result))

\* the rows of prompt and item lines on screen
WidgetRows(t) == {i \in 1..Len(t.screen) : t.screen[i] \in {"prompt", "item"}}

\* C15: with clear_on_exit false the completing step (Enter, Space on a
\* file, a permitted Escape) erases no row of the widget; with clear_on_exit
\* true it erases the widget's prompt and item rows.
C15_ClearOnExit ==
    [][ (Browsing /\ status' \in {"selected", "cancelled"}) =>
          IF clear
          THEN WidgetRows(term') = {}
          ELSE /\ WidgetRows(term') = WidgetRows(term)
               /\ term'.above = term.above
               /\ CallsAt(term', "clear_last_lines") = {}
      ]_vars

\* C16: when a terminal call (hide or show cursor, write, clear, flush,
\* key read) or a directory listing (read_dir, at the start or after a
\* descent) fails, the picker returns the error at once: the failed call is
\* the last call of the step, no result is produced, and no step follows
\* (no key read, no frame, no retry).
C16_ErrorReturns ==
    /\ [](CallsAt(term, "Err") # {} =>
            /\ status = "error"
            /\ result = None
            /\ CallsAt(term, "Err") = {Len(term.ops)}
            /\ term.failed)
    /\ [](status = "error" <=> term.failed)
    /\ [][status # "error"]_vars

\* the listing of the directory entered by a descent failed: the descent
\* had erased the frame, and the cursor is still hidden
C16_Witness ==
    /\ status = "error"
    /\ lastKey = "Space"
    /\ term.ops # << >>
    /\ term.ops[Len(term.ops)].op = "Err"
    /\ term.ops[Len(term.ops)].line.text = "read_dir"
    /\ CallsAt(term, "clear_last_lines") # {}
    /\ ~term.cursor

ReadableAt(raw) == {i \in 1..Len(raw) : raw[i].ok}

\* files is the list of the children of dir, enumerated as raw, at the
\* positions P, in enumeration order: as many entries as positions, each
\* the child at a position of P, at increasing positions
ListsExactly(files, dir, raw, P) ==
    /\ Len(files) = Cardinality(P)
    /\ \A k \in 1..Len(files) : \E i \in P : files[k] = dir \o <<raw[i].name>>
    /\ \A k \in 1..(Len(files) - 1) :
          \E i \in P : /\ files[k] = dir \o <<raw[i].name>>
                        /\ \E j \in {p \in P : p > i} : files[k + 1] = dir \o <<raw[j].name>>

\* the listing of a directory is made when the directory is opened and kept
\* until the picker returns or descends
ListingKept ==
    [][ (Browsing /\ directory' = directory /\ lastKey' # "Space") =>
          files_in_dir' = files_in_dir ]_vars

\* C18: with filter Folder the listing made when a directory is opened is
\* exactly the readable children of the directory that are directories, in
\* enumeration order, and holds no regular file; with filter Any it is
\* every readable child (each has a name).
C18_ListFolderAny ==
    /\ [](Fresh /\ file_type = Folder =>
            LET raw == [i \in 1..Len(RawDir(directory)) |-> RawDir(directory)[i]]
            IN  /\ ListsExactly(files_in_dir, directory, raw,
                                {i \in ReadableAt(raw) : raw[i].is_dir})
                /\ \A k \in 1..Len(files_in_dir) : ChildOf(files_in_dir[k]).is_dir)
    /\ [](Fresh /\ file_type = AnyFile =>
            LET raw == [i \in 1..Len(RawDir(directory)) |-> RawDir(directory)[i]]
            IN  /\ ListsExactly(files_in_dir, directory, raw, ReadableAt(raw))
                /\ \A k \in 1..Len(files_in_dir) : file_name(files_in_dir[k]) # None)
    /\ ListingKept

\* filter Folder in the working directory: two files and the unreadable
\* entry are left out, the three directories are listed in order
C18_Witness ==
    /\ Browsing
    /\ file_type = Folder
    /\ directory = Cwd
    /\ Len(RawDir(directory)) = 6
    /\ files_in_dir = << Cwd \o <<"big">>, Cwd \o <<"empty">>, Cwd \o <<"wide">> >>

\* C19: with filter WithExtension(ext), ext in lower case, the listing is
\* every readable child directory and exactly the readable files whose
\* extension, lower-cased, equals ext: "jpg" keeps photo.JPG and drops
\* notes.txt and the names without an extension.
C19_ListWithExtension ==
    /\ [](Fresh /\ file_type.tag = "WithExtension" =>
            LET raw == [i \in 1..Len(RawDir(directory)) |-> RawDir(directory)[i]]
            IN  /\ ListsExactly(files_in_dir, directory, raw,
                      {i \in ReadableAt(raw) :
                          \/ raw[i].is_dir
                          \/ /\ raw[i].ext # None
                             /\ to_lowercase(Unwrap(raw[i].ext)) = file_type.ext})
                /\ (directory = Cwd /\ file_type.ext = "jpg" =>
                      /\ \E k \in 1..Len(files_in_dir) :
                            files_in_dir[k] = Cwd \o <<"photo.JPG">>
                      /\ \A k \in 1..Len(files_in_dir) :
                            files_in_dir[k] # Cwd \o <<"notes.txt">>)
                /\ \A k \in 1..Len(files_in_dir) :
                      ~ChildOf(files_in_dir[k]).is_dir => ChildOf(files_in_dir[k]).ext # None)
    /\ [][ (Browsing /\ file_type.tag = "WithExtension" /\ directory' = directory
            /\ lastKey' # "Space") => Len(files_in_dir') = Len(files_in_dir) ]_vars

\* filter "jpg" in the 30-entry directory: the sub-directory and 28 files
\* f<i>.jpg are listed, the name without an extension is not
C19_Witness ==
    /\ Browsing
    /\ file_type = WithExtension("jpg")
    /\ directory = Cwd \o <<"big">>
    /\ Len(files_in_dir) = 29
    /\ files_in_dir[14] = Cwd \o <<"big", "sub">>
    /\ files_in_dir[29] = Cwd \o <<"big", "f28.jpg">>

\* C20: after max_length(val), on a terminal with at least val + 2 rows,
\* every frame shows at most val items (the stored bound is val + 2).
C20_PageShowsVal ==
    (Browsing /\ max_length # None /\ Unwrap(max_length) <= TermRows) =>
        Len(ItemsWritten(term)) <= Unwrap(max_length) - 2

\* the rows taken by the lines written since the last erase of the step
RECURSIVE RowsSinceErase(_, _)
RowsSinceErase(ops, i) ==
    IF i = 0 \/ ops[i].op = "clear_last_lines" THEN 0
    ELSE RowsSinceErase(ops, i - 1)
         + (IF ops[i].op = "write_line" THEN RowsOf(ops[i].line) ELSE 0)

\* C21: every erase removes exactly the rows the widget has written and
\* not yet erased: no erase reaches a row the widget did not write, after
\* the full clear of a completion with clear_on_exit no prompt or item row
\* is left, and after the full clear between two frames of a paged
\* directory the screen holds the new frame only.
C21_EraseExact ==
    /\ term.above = 0
    /\ (status \in {"selected", "cancelled"} /\ clear => WidgetRows(term) = {})
    /\ (Browsing /\ paging.active /\ CallsAt(term, "clear_last_lines") # {} =>
          Len(term.screen) = RowsSinceErase(term.ops, Len(term.ops)))

\* C22: in every frame of a directory with N >= 1 entries, current_page is
\* floor(selection / capacity) and is below page_count, so the window
\* [current_page * capacity, min(N, (current_page + 1) * capacity)) holds
\* the selected index, and exactly one written item is highlighted: the
\* selected entry.
C22_WindowHoldsSelection ==
    (Browsing /\ total_items >= 1) =>
        LET first == paging.current_page * paging.capacity
            end == Min(total_items, (paging.current_page + 1) * paging.capacity)
            items == ItemsWritten(term)
            lit == {i \in 1..Len(items) : items[i].line.active}
        IN  /\ paging.current_page = sel \div paging.capacity
            /\ paging.current_page < paging.pages
            /\ first <= sel
            /\ sel < end
            /\ Len(items) = end - first
            /\ lit = {sel - first + 1}
            /\ items[sel - first + 1].line.text = filenames(files_in_dir)[sel + 1]

\* a Down key has crossed from the last item of page 0 to the first of page 1
C22_Witness ==
    /\ Browsing
    /\ lastKey = "Down"
    /\ paging.active
    /\ paging.current_page = 1
    /\ sel = paging.capacity
    /\ ItemsWritten(term)[1].line.active

\* the calls of a frame: the prompt lines, then the item lines, then one
\* flush, which is the last call before the key read
FrameOrder(ops, from) ==
    /\ Len(ops) >= from
    /\ ops[Len(ops)].op = "flush"
    /\ \A i \in from..(Len(ops) - 1) :
          /\ ops[i].op = "write_line"
          /\ ops[i].line.kind \in {"prompt", "item"}
          /\ (ops[i].line.kind = "prompt" => i = from)

\* C23: every step ends with a frame (prompt, items, flush) and the key
\* read follows the flush; a key that neither ends the picker nor descends
\* first recomputes the page for the selection and then erases, before the
\* next frame, the whole frame (item and prompt height) if paging is active
\* and the items only (prompt kept) if it is not.
C23_StepOrder ==
    /\ [](Browsing => \E from \in 1..Len(term.ops) :
                         /\ FrameOrder(term.ops, from)
                         /\ \A i \in 1..(from - 1) : term.ops[i].op # "write_line"
                                                     \/ term.ops[i].line.kind = "selection")
    /\ [][ (Browsing /\ status' = "browsing" /\ directory' = directory) =>
             /\ paging'.current_page = sel' \div paging.capacity
             /\ paging'.active = paging.active
             /\ term'.ops[1] =
                   Call("clear_last_lines",
                        IF paging.active
                        THEN render.height + render.prompt_height
                        ELSE render.height
                             + Cardinality({i \in 1..total_items :
                                               Len(filenames(files_in_dir)[i]) > TermCols}),
                        NoLine)
             /\ FrameOrder(term'.ops, 2)
             /\ (PromptsWritten(term') # << >>) = (prompt # None /\ paging.active)
             /\ (~paging.active => render'.prompt_height = render.prompt_height)
         ]_vars

\* a Down key in a directory without paging: the items were erased, the
\* prompt row was kept and not written again
C23_Witness ==
    /\ Browsing
    /\ lastKey = "Down"
    /\ ~paging.active
    /\ prompt # None
    /\ term.ops[1].op = "clear_last_lines"
    /\ term.ops[1].n = total_items
    /\ PromptsWritten(term) = << >>
    /\ term.screen[1] = "prompt"
    /\ Len(ItemsWritten(term)) = total_items

\* C24: clear() erases item_height + prompt_height lines and leaves both
\* counters at 0, so a second clear() with no write in between erases no line.
C24_ClearResetsBoth ==
    Browsing =>
        LET s1 == render_clear(Locals)
            s2 == render_clear(s1)
        IN  /\ s1.term.ops[Len(s1.term.ops)] =
                  Call("clear_last_lines", render.height + render.prompt_height, NoLine)
            /\ s1.render.height = 0
            /\ s1.render.prompt_height = 0
            /\ s2.term.ops[Len(s2.term.ops)] = Call("clear_last_lines", 0, NoLine)

\* the names of the listing that are longer than the terminal is wide
LongNames == {i \in 1..total_items : Len(filenames(files_in_dir)[i]) > TermCols}

\* C25: clear_preserve_prompt erases item_height lines plus one for each
\* item longer than the terminal's column count, sets item_height to 0 and
\* keeps prompt_height; select_prompt stores the lines it wrote in
\* prompt_height and leaves item_height at 0.
C25_PreservePromptCount ==
    /\ [](Browsing =>
            LET s1 == clear_preserve_prompt(AtKey, size_vec(files_in_dir))
                s2 == select_prompt(s1, PromptText, None)
            IN  /\ s1.term.ops = << Call("clear_last_lines",
                                         render.height + Cardinality(LongNames), NoLine) >>
                /\ s1.render.height = 0
                /\ s1.render.prompt_height = render.prompt_height
                /\ s2.render.prompt_height = 1
                /\ s2.render.height = 0)
    /\ [](Browsing /\ PromptsWritten(term) # << >> =>
            /\ render.prompt_height = Len(PromptsWritten(term))
            /\ render.height = Len(ItemsWritten(term)))
    /\ [][ (Browsing /\ ~paging.active /\ status' = "browsing" /\ directory' = directory) =>
             /\ term'.ops[1].op = "clear_last_lines"
             /\ term'.ops[1].n = render.height + Cardinality(LongNames)
             /\ render'.prompt_height = render.prompt_height
             /\ render'.height = Len(ItemsWritten(term'))
         ]_vars

\* a key in the directory with two long names among three: the erase counts
\* 3 + 2 lines and the prompt height stays 1
C25_Witness ==
    /\ Browsing
    /\ ~paging.active
    /\ lastKey = "Down"
    /\ total_items = 3
    /\ Cardinality(LongNames) = 2
    /\ term.ops[1] = Call("clear_last_lines", 5, NoLine)
    /\ render.prompt_height = 1
    /\ render.height = 3

\* C26: with a prompt set, the prompt line of a frame carries the indicator
\* [Page X/Y] exactly when paging is active in that frame, with
\* X = current_page + 1, Y = page_count and 1 <= X <= Y.  (page = 0 in a
\* prompt line stands for a line without indicator.)
C26_PageIndicator ==
    (Browsing /\ prompt # None) =>
        LET written == PromptsWritten(term)
        IN  IF paging.active
            THEN /\ Len(written) = 1
                 /\ written[1].line.prompt = Unwrap(prompt)
                 /\ written[1].line.page = paging.current_page + 1
                 /\ written[1].line.pages = paging.pages
                 /\ 1 <= written[1].line.page
                 /\ written[1].line.page <= written[1].line.pages
            ELSE /\ \A i \in 1..Len(written) :
                       written[i].line.page = 0 /\ written[i].line.pages = 0
                 /\ (Fresh => Len(written) = 1)

\* Left has wrapped to the last of three pages: the prompt reads [Page 3/3]
C26_Witness ==
    /\ Browsing
    /\ prompt # None
    /\ paging.active
    /\ lastKey = "Left"
    /\ Len(PromptsWritten(term)) = 1
    /\ PromptsWritten(term)[1].line.page = 3
    /\ PromptsWritten(term)[1].line.pages = 3

\* what the entry point returns once _interact_on has returned:
\* interact_on turns Ok(None) into an error, interact_on_opt returns the
\* value as it is
Returned ==
    CASE status = "error" -> "Err(io)"
      [] status \in {"selected", "cancelled"} /\ ~allow_quit ->
            IF result = None THEN "Err(Quit not allowed in this case)" ELSE "Ok(path)"
      [] status = "selected" -> "Ok(Some(path))"
      [] status = "cancelled" -> "Ok(None)"
      [] OTHER -> "running"

\* C27: on the entry point that does not allow cancelling the loop never
\* ends in Cancelled, so "Quit not allowed in this case" is never returned,
\* and the only value returned without error is a path of the listing.
C27_NoQuitNoCancel ==
    /\ (~allow_quit => status # "cancelled")
    /\ Returned # "Err(Quit not allowed in this case)"
    /\ (~allow_quit /\ status = "selected" =>
          /\ Returned = "Ok(path)"
          /\ \E i \in 1..total_items : result = Some(files_in_dir[i]))

\* Escape was pressed on the entry point that does not allow cancelling and
\* the picker is still browsing
C27_Witness == Browsing /\ ~allow_quit /\ lastKey = "Escape"

\* C28: in every directory, one with an empty listing included, no key
\* handler takes a remainder modulo zero or indexes the listing at or past
\* its length (either panics): a key is ignored, leaves a valid state, or
\* ends with a path of the listing.
C28_NoPanic ==
    /\ status # "panicked"
    /\ (Browsing /\ total_items >= 1 => Selected)
    /\ (status = "selected" => \E i \in 1..total_items : result = Some(files_in_dir[i]))

\* a step taken by one of the keys that neither select nor cancel: Down, Up,
\* Left, Right, a key without binding, Escape where cancelling is not
\* allowed, Space on a directory
KeepsBrowsingKey ==
    \/ lastKey' \in {"Down", "Up", "Left", "Right", "Other"}
    \/ lastKey' = "Escape" /\ ~allow_quit
    \/ lastKey' = "Space" /\ Selected /\ is_dir(files_in_dir[sel + 1])

\* C29: the picker leaves Browsing only by Enter on an existing entry, by
\* Space on an existing entry that is not a directory, by Escape where
\* cancelling is allowed, or by an I/O error; Selected and Cancelled are
\* final; Down, Up, Left, Right, keys without binding and Space on a
\* directory never end the picker (unless a call fails).
C29_ExitsOfBrowsing ==
    /\ [][ (Browsing /\ status' # "browsing") =>
             \/ lastKey' = "Enter" /\ Selected /\ status' = "selected"
             \/ /\ lastKey' = "Space"
                /\ Selected
                /\ ~is_dir(files_in_dir[sel + 1])
                /\ status' = "selected"
             \/ lastKey' = "Escape" /\ allow_quit /\ status' = "cancelled"
             \/ status' = "error"
         ]_vars
    /\ [][ status \notin {"selected", "cancelled"} ]_vars
    /\ [][ (Browsing /\ KeepsBrowsingKey /\ ~term'.failed) => status' = "browsing" ]_vars

====
